---- MODULE Spec2Model ----
(***************************************************************************)
(* A model of backend/main.py, the /generate endpoint of MedTech AI.       *)
(*                                                                         *)
(* main.py holds both sides of an unresolved merge (the "=======" marker   *)
(* of line 242): the "merge" revision of the handler (lines 226-241:       *)
(* research, script, compliance, Runway video, text-to-speech, subtitles,  *)
(* ffmpeg merge) and the "veo" revision (lines 246-259: script, VEO video  *)
(* with its polling loop).  The model keeps both: variant says which       *)
(* revision serves the requests.  The step functions are translated from   *)
(* the statements that can execute; the statements after an unconditional  *)
(* return (lines 93-97) are not.  Lines 128-145, which the merge left      *)
(* behind the return of generate_video_with_audio, are the body of the     *)
(* Runway step that the "merge" handler calls as generate_gen2_video.      *)
(* Names the merged text leaves unbound (requests, HTTPException, key,     *)
(* base64, subprocess) are read as the libraries they name.                *)
(***************************************************************************)
EXTENDS Integers, Sequences, FiniteSets, TLC

\* ------------------------------------------------------------------ bounds
\* Outbound calls per API and request are counted up to MaxCalls (saturating).
MaxCalls == 2
\* create_srt is explored on scripts of up to MaxSegments segments ...
MaxSegments == 31
\* ... grown from every script of at most MaxShort characters.
MaxShort == 3

\* ------------------------------------------------------- program constants
HTTP_OK == 200
HTTP_ERROR == 500
SRT_STEP == 2

\* Python's None, and a local variable not yet bound
None == <<>>
\* os.getenv of a variable that is not set
UnsetEnv == "<unset>"
Requests == {"r1", "r2"}
Variants == {"merge", "veo"}
\* os.getenv("RENDER_EXTERNAL_HOSTNAME"): unset, set but empty, or a host name
Hostnames == {UnsetEnv, "", "medtech.onrender.com"}
temp_dir == "/tmp"

\* What the external services may answer.
Statuses == {HTTP_OK, HTTP_ERROR}
Scripts == {<<"a">>, <<"b">>}
APIs == {"gemini_generate", "gemini_compliance", "runway", "eden_tts",
         "video_download", "veo_generate_videos", "veo_operations_get",
         "veo_files_download"}

\* The request body of each client (RequestData, language defaulted to "en").
RequestData(r) ==
    [device_name |-> <<"device", r>>, purpose |-> "training", language |-> "en"]

VARIABLES
    variant,    \* which revision of generate is the handler
    hostname,   \* the environment's RENDER_EXTERNAL_HOSTNAME
    pc,         \* pc[r]: where request r is in the handler
    local,      \* local[r]: the handler's local variables
    resp,       \* resp[r]: the HTTP response sent for r, or None
    written,    \* written[r]: the paths of temp_dir that r wrote
    uuidCount,  \* how many uuid4() values have been drawn
    calls,      \* calls[r][api]: outbound calls issued (saturating at MaxCalls)
    started,    \* started[r]: the steps of the handler begun, in order
    returned,   \* returned[r]: the steps of the handler that returned, in order
    failed,     \* failed[r]: the steps in which an external call failed
    seen,       \* seen[r]: what the services answered r (script text, statuses)
    srtScript,  \* the script create_srt is applied to (SrtSpec)
    srtOut      \* the entries create_srt produced for it, or None (SrtSpec)

vars == <<variant, hostname, pc, local, resp, written, uuidCount, calls,
          started, returned, failed, seen, srtScript, srtOut>>
reqVars == <<variant, hostname, pc, local, resp, written, uuidCount, calls,
             started, returned, failed, seen>>
srtVars == <<srtScript, srtOut>>

\* ------------------------------------------------------------ pure helpers
\* uuid.uuid4(): a value no earlier call returned (collisions are not modelled).
uuid4(n) == n + 1

\* an output path that leaves the uuid out of the file name
output_path_fixed_name(prefix, u, suffix) == <<temp_dir, <<prefix, 0, suffix>>>>

\* os.path.join(temp_dir, f"{prefix}{uuid}{suffix}")
output_path(prefix, u, suffix) == <<temp_dir, <<prefix, u, suffix>>>>

\* os.path.basename
basename(path) == path[2]

\* "if hostname": None and the empty string are both false
truthy(h) == h # UnsetEnv /\ h # ""

\* a public URL built from the whole path instead of its base name
public_url_whole_path(h, path) ==
    IF truthy(h) THEN <<"https://", h, "/videos/", path>>
    ELSE <<"/videos/", path>>

\* lines 253-257 (and 239-241): the public URL of a saved file
public_url(h, path) ==
    IF truthy(h) THEN <<"https://", h, "/videos/", basename(path)>>
    ELSE <<"/videos/", basename(path)>>

\* line 48: the /videos mount serves temp_dir; the file a URL resolves to
static_resolve(url) ==
    IF Len(url) = 2 /\ url[1] = "/videos/" THEN <<temp_dir, url[2]>>
    ELSE IF Len(url) = 4 /\ url[1] = "https://" /\ url[3] = "/videos/"
         THEN <<temp_dir, url[4]>>
         ELSE None

\* a step that takes any answer as a success
status_ok_unchecked(status) == TRUE

\* "if r.status_code != 200: raise HTTPException(status_code=500, ...)"
status_ok(status) == status = HTTP_OK

\* raise HTTPException(status_code=500, detail=...)
HTTPException(detail) ==
    [type |-> "HTTPException", status_code |-> HTTP_ERROR, detail |-> detail]

\* any other exception a statement raises
Raised(type) == [type |-> type, detail |-> type]

\* global_exception_handler without its status_code=500 (JSONResponse's default)
global_exception_handler_default_status(exc) ==
    [status_code |-> HTTP_OK, content |-> [error |-> exc.detail]]

\* lines 52-59: every exception that is not an HTTPException
global_exception_handler(exc) ==
    [status_code |-> HTTP_ERROR, content |-> [error |-> exc.detail]]

\* The response of a request whose handler raised exc: FastAPI answers an
\* HTTPException itself, everything else goes to global_exception_handler.
error_response(exc) ==
    IF exc.type = "HTTPException"
    THEN [status_code |-> exc.status_code, content |-> [detail |-> exc.detail]]
    ELSE global_exception_handler(exc)

\* generate's return with the script left out of the body
generate_response_no_script(script, video_url) ==
    [status_code |-> HTTP_OK, content |-> [video_url |-> video_url]]

\* line 259: the body of the "veo" handler's response
generate_response(script, video_url) ==
    [status_code |-> HTTP_OK,
     content |-> [script |-> script, video_url |-> video_url]]

\* next_step with the video requested before the compliance check has run
next_step_video_first(v, s) ==
    CASE s = "research" -> "script_call"
      [] s = "script" -> IF v = "merge" THEN "runway_call" ELSE "veo_call"
      [] s = "video" -> IF v = "merge" THEN "compliance_call" ELSE "url"
      [] s = "compliance" -> "audio_call"
      [] s = "audio" -> "srt"
      [] s = "srt" -> "merge_call"
      [] s = "merge" -> "url"

\* The handler's sequence (lines 229-238 and 249-252): where it goes when
\* step s has returned.
next_step(v, s) ==
    CASE s = "research" -> "script_call"
      [] s = "script" -> IF v = "merge" THEN "compliance_call" ELSE "veo_call"
      [] s = "compliance" -> "runway_call"
      [] s = "video" -> IF v = "merge" THEN "audio_call" ELSE "url"
      [] s = "audio" -> "srt"
      [] s = "srt" -> "merge_call"
      [] s = "merge" -> "url"

\* a loop that polls once more whatever the operation reports
loop_continues_always(operation) == TRUE

\* a loop that gives up at once
loop_continues_never(operation) == FALSE

\* "while not operation.done"
loop_continues(operation) == ~operation.done

\* ---- create_srt, lines 181-190, as text
\* A script is a sequence of characters.
Alphabet == {"a", ".", " "}

\* script.split(". "): cut at every ". ", left to right, keeping empty pieces
RECURSIVE SplitFrom(_, _, _)
SplitFrom(script, i, piece) ==
    IF i > Len(script) THEN <<piece>>
    ELSE IF i < Len(script) /\ script[i] = "." /\ script[i + 1] = " "
         THEN <<piece>> \o SplitFrom(script, i + 2, <<>>)
         ELSE SplitFrom(script, i + 1, Append(piece, script[i]))
split(script) == SplitFrom(script, 1, <<>>)

\* the decimal digits of n
RECURSIVE Digits(_)
Digits(n) == IF n < 10 THEN <<n>> ELSE Append(Digits(n \div 10), n % 10)

\* f"{n:02d}": at least two digits, zero-padded
format_02d(n) == IF n < 10 THEN <<0, n>> ELSE Digits(n)

\* f"00:00:{t:02d},000"
timestamp(t) ==
    [hours |-> <<0, 0>>, minutes |-> <<0, 0>>, seconds |-> format_02d(t),
     millis |-> <<0, 0, 0>>]

\* lines 184-190: the entries of the subtitle text, one per piece
RECURSIVE srt_entries(_, _, _)
srt_entries(lines, i, current_time) ==
    IF i > Len(lines) THEN <<>>
    ELSE <<[index |-> i, start |-> timestamp(current_time),
            end |-> timestamp(current_time + SRT_STEP), text |-> lines[i]]>>
         \o srt_entries(lines, i + 1, current_time + SRT_STEP)

create_srt(script) == srt_entries(split(script), 1, 0)

Bump(c) == IF c < MaxCalls THEN c + 1 ELSE MaxCalls

\* The handler's locals before any is bound (compliance is a boolean once
\* line 231 binds it, and is not read before).
NoLocals ==
    [research |-> None, prompt |-> None, script |-> None, compliance |-> FALSE,
     video_url |-> None, audio_path |-> None, srt_path |-> None,
     raw_video_path |-> None, final_path |-> None, operation |-> None,
     video_path |-> None, prompt_text |-> None, public_url |-> None,
     srt |-> None]

\* The steps that are one HTTP request with a status-code check.
HttpSteps == {"script", "video", "audio"}
\* Before any answer: no script text, no status (0) for any HTTP step.
NothingSeen == [text |-> None, status |-> [s \in HttpSteps |-> 0]]

\* ------------------------------------------------------------------- Init
Init ==
    /\ variant \in Variants
    /\ hostname \in Hostnames
    /\ pc = [r \in Requests |->
                IF variant = "merge" THEN "research" ELSE "script_call"]
    /\ local = [r \in Requests |-> NoLocals]
    /\ resp = [r \in Requests |-> None]
    /\ written = [r \in Requests |-> {}]
    /\ uuidCount = 0
    /\ calls = [r \in Requests |-> [a \in APIs |-> 0]]
    /\ started = [r \in Requests |-> <<>>]
    /\ returned = [r \in Requests |-> <<>>]
    /\ failed = [r \in Requests |-> {}]
    /\ seen = [r \in Requests |-> NothingSeen]
    /\ srtScript = <<>>
    /\ srtOut = None

\* --------------------------------------------------- shared action pieces
\* The handler calls step function s.
Start(r, s) == started' = [started EXCEPT ![r] = Append(@, s)]
\* Step function s returns to the handler.
Return(r, s) == returned' = [returned EXCEPT ![r] = Append(@, s)]
\* An outbound call to api is issued.
Issue(r, api) == calls' = [calls EXCEPT ![r][api] = Bump(@)]
\* An exception leaves step s and the handler: the request is answered with it.
\* an exception that is swallowed: the handler goes on with the next step
RaiseFrom_swallowed(r, s, exc) ==
    /\ pc' = [pc EXCEPT ![r] = next_step(variant, s)]
    /\ failed' = [failed EXCEPT ![r] = @ \cup {s}]
    /\ UNCHANGED <<local, resp, uuidCount, returned>>

RaiseFrom(r, s, exc) ==
    /\ pc' = [pc EXCEPT ![r] = "done"]
    /\ resp' = [resp EXCEPT ![r] = error_response(exc)]
    /\ failed' = [failed EXCEPT ![r] = @ \cup {s}]
    /\ UNCHANGED <<local, uuidCount, returned>>
Raise(r, s, exc) == RaiseFrom(r, s, exc) /\ UNCHANGED written

Goto(r, p) == pc' = [pc EXCEPT ![r] = p]
Set(r, f, v) == local' = [local EXCEPT ![r][f] = v]
\* A file of temp_dir is written by r.
WriteFile(r, path) == written' = [written EXCEPT ![r] = @ \cup {path}]

\* ------------------------------------------------- steps of both handlers
\* generate_script, lines 77-88: build the prompt and POST it to Gemini.
GenerateScriptCall(r) ==
    /\ pc[r] = "script_call"
    /\ Start(r, "script")
    /\ Issue(r, "gemini_generate")
    /\ Set(r, "prompt",
           <<RequestData(r).device_name, RequestData(r).purpose,
             RequestData(r).language>>)
    /\ Goto(r, "script_wait")
    /\ UNCHANGED <<variant, hostname, seen, resp, written, uuidCount, returned,
                   failed, srtVars>>

\* generate_script, lines 88-92: the answer arrives.
GenerateScriptReturn(r) ==
    /\ pc[r] = "script_wait"
    /\ UNCHANGED <<variant, hostname, calls, started, srtVars>>
    /\ \/ Raise(r, "script", Raised("ConnectionError")) /\ UNCHANGED seen
       \/ \E status \in Statuses, text \in Scripts \cup {None} :
            /\ seen' = [seen EXCEPT ![r].text = text,
                                    ![r].status["script"] = status]
            /\ IF ~status_ok(status)
               THEN Raise(r, "script", HTTPException("Gemini Error"))
               ELSE IF text = None
                    THEN Raise(r, "script", Raised("KeyError"))
                    ELSE /\ Set(r, "script", text)
                         /\ Return(r, "script")
                         /\ Goto(r, next_step(variant, "script"))
                         /\ UNCHANGED <<resp, written, uuidCount, failed>>

\* ------------------------------------------------ the "veo" handler's video
\* generate_video_with_audio, lines 105-111: start the VEO operation.
GenerateVideosCall(r) ==
    /\ pc[r] = "veo_call"
    /\ Start(r, "video")
    /\ Issue(r, "veo_generate_videos")
    /\ Set(r, "prompt_text", local[r].script)
    /\ Goto(r, "veo_wait")
    /\ UNCHANGED <<variant, hostname, seen, resp, written, uuidCount, returned,
                   failed, srtVars>>

\* An operation as the service reports it: done or not, and with a generated
\* video or without one (an operation that ended in an error has none).
Operations ==
    {[done |-> FALSE, has_video |-> FALSE]}
        \cup {[done |-> TRUE, has_video |-> v] : v \in BOOLEAN}

\* lines 105-111: the operation handle arrives.
GenerateVideosReturn(r) ==
    /\ pc[r] = "veo_wait"
    /\ UNCHANGED <<variant, hostname, seen, calls, started, srtVars>>
    /\ \/ Raise(r, "video", Raised("APIError"))
       \/ \E op \in Operations :
            /\ Set(r, "operation", op)
            /\ Goto(r, "veo_loop")
            /\ UNCHANGED <<resp, written, uuidCount, returned, failed>>

\* lines 114-120: the loop test; on exit, read the generated video.
PollLoop(r) ==
    /\ pc[r] = "veo_loop"
    /\ UNCHANGED <<variant, hostname, seen, calls, started, srtVars>>
    /\ IF loop_continues(local[r].operation)
       THEN /\ Goto(r, "veo_get_call")          \* print, time.sleep(15)
            /\ UNCHANGED <<local, resp, written, uuidCount, returned, failed>>
       ELSE IF ~local[r].operation.has_video
            THEN Raise(r, "video", Raised("TypeError"))
            ELSE /\ Goto(r, "veo_save_call")
                 /\ UNCHANGED <<local, resp, written, uuidCount, returned,
                                failed>>

\* line 117: fetch the operation again.
OperationsGetCall(r) ==
    /\ pc[r] = "veo_get_call"
    /\ Issue(r, "veo_operations_get")
    /\ Goto(r, "veo_get_wait")
    /\ UNCHANGED <<variant, hostname, seen, local, resp, written, uuidCount,
                   started, returned, failed, srtVars>>

\* line 117: the re-fetched operation arrives.
OperationsGetReturn(r) ==
    /\ pc[r] = "veo_get_wait"
    /\ UNCHANGED <<variant, hostname, seen, calls, started, srtVars>>
    /\ \/ Raise(r, "video", Raised("APIError"))
       \/ \E op \in Operations :
            /\ Set(r, "operation", op)
            /\ Goto(r, "veo_loop")
            /\ UNCHANGED <<resp, written, uuidCount, returned, failed>>

\* lines 122-123: choose the output path, download the video.
FilesDownloadCall(r) ==
    /\ pc[r] = "veo_save_call"
    /\ uuidCount' = uuid4(uuidCount)
    /\ Set(r, "video_path", output_path("veo_", uuid4(uuidCount), ".mp4"))
    /\ Issue(r, "veo_files_download")
    /\ Goto(r, "veo_save_wait")
    /\ UNCHANGED <<variant, hostname, seen, resp, written, started, returned,
                   failed, srtVars>>

\* lines 123-126: the download ends; save the file and return its path.
FilesDownloadReturn(r) ==
    /\ pc[r] = "veo_save_wait"
    /\ UNCHANGED <<variant, hostname, seen, calls, started, srtVars>>
    /\ \/ Raise(r, "video", Raised("APIError"))
       \/ /\ WriteFile(r, local[r].video_path)
          /\ Return(r, "video")
          /\ Goto(r, next_step(variant, "video"))
          /\ UNCHANGED <<local, resp, uuidCount, failed>>

\* lines 252-257 (238-241 in the "merge" handler): the public URL.
BuildUrl(r) ==
    /\ pc[r] = "url"
    /\ Set(r, "public_url",
           public_url(hostname, IF variant = "merge" THEN local[r].final_path
                                ELSE local[r].video_path))
    /\ Goto(r, "respond")
    /\ UNCHANGED <<variant, hostname, seen, resp, written, uuidCount, calls,
                   started, returned, failed, srtVars>>

\* line 259: the "veo" handler returns.
RespondVeo(r) ==
    /\ pc[r] = "respond"
    /\ variant = "veo"
    /\ resp' = [resp EXCEPT ![r] =
                  generate_response(local[r].script, local[r].public_url)]
    /\ Goto(r, "done")
    /\ UNCHANGED <<variant, hostname, seen, local, written, uuidCount, calls,
                   started, returned, failed, srtVars>>

\* ---------------------------------------------- the "merge" handler's steps
\* line 229, fetch_research: the research note is a fixed text about the device.
FetchResearch(r) ==
    /\ pc[r] = "research"
    /\ Start(r, "research")
    /\ Return(r, "research")
    /\ Set(r, "research", <<"research", RequestData(r).device_name>>)
    /\ Goto(r, next_step(variant, "research"))
    /\ UNCHANGED <<variant, hostname, seen, resp, written, uuidCount, calls,
                   failed, srtVars>>

\* line 231, validate_compliance: ask the LLM whether the script matches.
ValidateComplianceCall(r) ==
    /\ pc[r] = "compliance_call"
    /\ Start(r, "compliance")
    /\ Issue(r, "gemini_compliance")
    /\ Goto(r, "compliance_wait")
    /\ UNCHANGED <<variant, hostname, seen, local, resp, written, uuidCount,
                   returned, failed, srtVars>>

\* validate_compliance ends: a failed call is reported and taken as compliant.
ValidateComplianceReturn(r) ==
    /\ pc[r] = "compliance_wait"
    /\ Return(r, "compliance")
    /\ Goto(r, next_step(variant, "compliance"))
    /\ UNCHANGED <<variant, hostname, seen, resp, written, uuidCount, calls,
                   started, srtVars>>
    /\ \/ /\ Set(r, "compliance", TRUE)
          /\ failed' = [failed EXCEPT ![r] = @ \cup {"compliance"}]
       \/ \E verdict \in BOOLEAN :
            /\ Set(r, "compliance", verdict)
            /\ UNCHANGED failed

\* What Runway may name as the generated video.
RemoteVideos == {<<"https://", "runway.example", "/out.mp4">>}

\* line 233 and lines 128-141: POST the script to Runway.
Gen2VideoCall(r) ==
    /\ pc[r] = "runway_call"
    /\ Start(r, "video")
    /\ Issue(r, "runway")
    /\ Set(r, "prompt_text", local[r].script)
    /\ Goto(r, "runway_wait")
    /\ UNCHANGED <<variant, hostname, seen, resp, written, uuidCount, returned,
                   failed, srtVars>>

\* lines 141-145: Runway's answer arrives.
Gen2VideoReturn(r) ==
    /\ pc[r] = "runway_wait"
    /\ UNCHANGED <<variant, hostname, calls, started, srtVars>>
    /\ \/ Raise(r, "video", Raised("ConnectionError")) /\ UNCHANGED seen
       \/ \E status \in Statuses, video \in RemoteVideos \cup {None} :
            /\ seen' = [seen EXCEPT ![r].status["video"] = status]
            /\ IF ~status_ok(status)
               THEN Raise(r, "video", HTTPException("Runway Error"))
               ELSE IF video = None
                    THEN Raise(r, "video", Raised("KeyError"))
                    ELSE /\ Set(r, "video_url", video)
                         /\ Return(r, "video")
                         /\ Goto(r, next_step(variant, "video"))
                         /\ UNCHANGED <<resp, written, uuidCount, failed>>

\* generate_audio, lines 152-164: POST the script to the text-to-speech API.
GenerateAudioCall(r) ==
    /\ pc[r] = "audio_call"
    /\ Start(r, "audio")
    /\ Issue(r, "eden_tts")
    /\ Goto(r, "audio_wait")
    /\ UNCHANGED <<variant, hostname, seen, local, resp, written, uuidCount,
                   returned, failed, srtVars>>

\* generate_audio, lines 164-175: the answer arrives; the MP3 is written.
GenerateAudioReturn(r) ==
    /\ pc[r] = "audio_wait"
    /\ UNCHANGED <<variant, hostname, calls, started, srtVars>>
    /\ \/ Raise(r, "audio", Raised("ConnectionError")) /\ UNCHANGED seen
       \/ \E status \in Statuses, has_audio \in BOOLEAN :
            /\ seen' = [seen EXCEPT ![r].status["audio"] = status]
            /\ IF ~status_ok(status)
               THEN Raise(r, "audio", HTTPException("EdenAI TTS Error"))
               ELSE IF ~has_audio
                    THEN Raise(r, "audio", Raised("KeyError"))
                    ELSE /\ uuidCount' = uuid4(uuidCount)
                         /\ Set(r, "audio_path",
                                output_path("audio_", uuid4(uuidCount), ".mp3"))
                         /\ WriteFile(r, output_path("audio_",
                                                     uuid4(uuidCount), ".mp3"))
                         /\ Return(r, "audio")
                         /\ Goto(r, next_step(variant, "audio"))
                         /\ UNCHANGED <<resp, failed>>

\* create_srt, lines 181-195, as a step of the handler: the subtitle file.
CreateSrt(r) ==
    /\ pc[r] = "srt"
    /\ Start(r, "srt")
    /\ uuidCount' = uuid4(uuidCount)
    /\ local' = [local EXCEPT
                   ![r].srt = create_srt(local[r].script),
                   ![r].srt_path = output_path("sub_", uuid4(uuidCount), ".srt")]
    /\ WriteFile(r, output_path("sub_", uuid4(uuidCount), ".srt"))
    /\ Return(r, "srt")
    /\ Goto(r, next_step(variant, "srt"))
    /\ UNCHANGED <<variant, hostname, seen, resp, calls, failed, srtVars>>

\* ffmpeg_merge, lines 202-204: open the raw video file, GET the video.
FfmpegMergeCall(r) ==
    /\ pc[r] = "merge_call"
    /\ Start(r, "merge")
    /\ uuidCount' = uuid4(uuidCount)
    /\ Set(r, "raw_video_path", output_path("vid_", uuid4(uuidCount), ".mp4"))
    /\ WriteFile(r, output_path("vid_", uuid4(uuidCount), ".mp4"))
    /\ Issue(r, "video_download")
    /\ Goto(r, "merge_wait")
    /\ UNCHANGED <<variant, hostname, seen, resp, returned, failed, srtVars>>

\* ffmpeg_merge, lines 204-206: the download ends (its status is not looked
\* at); the final path is chosen.
FfmpegMergeDownload(r) ==
    /\ pc[r] = "merge_wait"
    /\ UNCHANGED <<variant, hostname, seen, calls, started, srtVars>>
    /\ \/ Raise(r, "merge", Raised("ConnectionError"))
       \/ /\ uuidCount' = uuid4(uuidCount)
          /\ Set(r, "final_path",
                 output_path("final_", uuid4(uuidCount), ".mp4"))
          /\ Goto(r, "ffmpeg")
          /\ UNCHANGED <<resp, written, returned, failed>>

\* ffmpeg_merge, lines 208-220: run ffmpeg (check=True) and return final_path.
FfmpegRun(r) ==
    /\ pc[r] = "ffmpeg"
    /\ UNCHANGED <<variant, hostname, seen, calls, started, srtVars>>
    /\ \/ /\ RaiseFrom(r, "merge", Raised("CalledProcessError"))
          /\ \/ UNCHANGED written
             \/ WriteFile(r, local[r].final_path)   \* a partial output
       \/ /\ WriteFile(r, local[r].final_path)
          /\ Return(r, "merge")
          /\ Goto(r, next_step(variant, "merge"))
          /\ UNCHANGED <<local, resp, uuidCount, failed>>

\* The "merge" handler returns: script, compliance flag, video URL, research.
RespondMerge(r) ==
    /\ pc[r] = "respond"
    /\ variant = "merge"
    /\ resp' = [resp EXCEPT ![r] =
                  [status_code |-> HTTP_OK,
                   content |-> [script |-> local[r].script,
                                compliance |-> local[r].compliance,
                                video_url |-> local[r].public_url,
                                research |-> local[r].research]]]
    /\ Goto(r, "done")
    /\ UNCHANGED <<variant, hostname, seen, local, written, uuidCount, calls,
                   started, returned, failed, srtVars>>

\* --------------------------------------------------------- specification
Step(r) ==
    \/ FetchResearch(r)
    \/ GenerateScriptCall(r)
    \/ GenerateScriptReturn(r)
    \/ ValidateComplianceCall(r)
    \/ ValidateComplianceReturn(r)
    \/ Gen2VideoCall(r)
    \/ Gen2VideoReturn(r)
    \/ GenerateAudioCall(r)
    \/ GenerateAudioReturn(r)
    \/ CreateSrt(r)
    \/ FfmpegMergeCall(r)
    \/ FfmpegMergeDownload(r)
    \/ FfmpegRun(r)
    \/ GenerateVideosCall(r)
    \/ GenerateVideosReturn(r)
    \/ PollLoop(r)
    \/ OperationsGetCall(r)
    \/ OperationsGetReturn(r)
    \/ FilesDownloadCall(r)
    \/ FilesDownloadReturn(r)
    \/ BuildUrl(r)
    \/ RespondVeo(r)
    \/ RespondMerge(r)

Next == \E r \in Requests : Step(r)

Spec == Init /\ [][Next]_vars

\* The server runs every request it has accepted: a handler that can take
\* its next step takes it.
FairSpec == Spec /\ \A r \in Requests : WF_vars(Step(r))

\* ------------------------------------------------- create_srt on its own
\* Every script of at most n characters.
RECURSIVE ScriptsUpTo(_)
ScriptsUpTo(n) ==
    IF n = 0 THEN {<<>>}
    ELSE ScriptsUpTo(n - 1)
           \cup {Append(t, c) : t \in {u \in ScriptsUpTo(n - 1) : Len(u) = n - 1},
                                c \in Alphabet}

SrtInit ==
    /\ variant = "merge"
    /\ hostname = UnsetEnv
    /\ pc = [r \in Requests |-> "research"]
    /\ local = [r \in Requests |-> NoLocals]
    /\ resp = [r \in Requests |-> None]
    /\ written = [r \in Requests |-> {}]
    /\ uuidCount = 0
    /\ calls = [r \in Requests |-> [a \in APIs |-> 0]]
    /\ started = [r \in Requests |-> <<>>]
    /\ returned = [r \in Requests |-> <<>>]
    /\ failed = [r \in Requests |-> {}]
    /\ seen = [r \in Requests |-> NothingSeen]
    /\ srtScript \in ScriptsUpTo(MaxShort)
    /\ srtOut = None

\* The script grows by one more sentence.
AppendSentence ==
    /\ srtOut = None
    /\ Len(split(srtScript)) < MaxSegments
    /\ srtScript' = srtScript \o <<".", " ", "a">>
    /\ UNCHANGED <<srtOut, reqVars>>

\* create_srt(script), lines 181-190.
ApplyCreateSrt ==
    /\ srtOut = None
    /\ srtOut' = create_srt(srtScript)
    /\ UNCHANGED <<srtScript, reqVars>>

SrtNext == AppendSentence \/ ApplyCreateSrt

SrtSpec == SrtInit /\ [][SrtNext]_vars

\* ================================================================ claims
Sent(r) == resp[r] # None
Ok(r) == Sent(r) /\ resp[r].status_code = HTTP_OK
Errored(r) == Sent(r) /\ resp[r].status_code = HTTP_ERROR

\* The steps each revision of the handler runs, in the order it calls them.
Pipeline(v) ==
    IF v = "merge"
    THEN <<"research", "script", "compliance", "video", "audio", "srt", "merge">>
    ELSE <<"script", "video">>

\* Position of a step in the order script, compliance, video, audio/subtitle
\* merge (research precedes them all).
Rank(s) ==
    CASE s = "research" -> 0 [] s = "script" -> 1 [] s = "compliance" -> 2
      [] s = "video" -> 3 [] s = "audio" -> 4 [] s = "srt" -> 5
      [] s = "merge" -> 6

IsPrefix(a, b) == Len(a) <= Len(b) /\ \A i \in 1..Len(a) : a[i] = b[i]

\* C1: within one request the steps run one after another in the order
\* script, compliance, video, audio/subtitle merge: a step is started only
\* when every step started before it has returned, and a response is sent
\* only when no step is still running (a normal response only after the
\* whole pipeline has returned).
C1_StepsRunInOrder ==
    \A r \in Requests :
        /\ IsPrefix(returned[r], started[r])
        /\ Len(started[r]) <= Len(returned[r]) + 1
        /\ \A i, j \in 1..Len(started[r]) :
              i < j => Rank(started[r][i]) < Rank(started[r][j])
        /\ Ok(r) => started[r] = Pipeline(variant)
                      /\ returned[r] = Pipeline(variant)
        /\ Errored(r) =>
              /\ Len(started[r]) = Len(returned[r]) + 1
              /\ started[r][Len(started[r])] \in failed[r]
        /\ Len(started[r]) = Len(returned[r]) + 1 /\ ~Sent(r) =>
              pc[r] \notin {"url", "respond", "done"}

C1_Witness ==
    \E r \in Requests :
        variant = "merge" /\ Ok(r) /\ Len(returned[r]) = 7

\* An error body: FastAPI's {"detail": ...} or the handler's {"error": ...}
HasErrorMessage(content) ==
    DOMAIN content = {"detail"} \/ DOMAIN content = {"error"}

C3_Original ==
    \A r \in Requests :
        Ok(r) =>
          /\ DOMAIN resp[r].content
               = {"script", "compliance", "video_url", "research"}
          /\ resp[r].content.compliance \in BOOLEAN
          /\ resp[r].content.script = local[r].prompt_text

\* C3 amended: every successful response has the script and a video URL;
\* the "merge" revision adds the boolean compliance flag and the research
\* echo, the "veo" revision (line 259) has exactly script and video_url; the
\* script of the response is the prompt passed to video generation.
C3_ResponseFields ==
    \A r \in Requests :
        Ok(r) =>
          /\ DOMAIN resp[r].content =
               IF variant = "merge"
               THEN {"script", "compliance", "video_url", "research"}
               ELSE {"script", "video_url"}
          /\ resp[r].content.script # None
          /\ resp[r].content.video_url # None
          /\ variant = "merge" =>
               /\ resp[r].content.compliance \in BOOLEAN
               /\ resp[r].content.research
                    = <<"research", RequestData(r).device_name>>
          /\ resp[r].content.script = local[r].prompt_text

C3_Witness == \E r \in Requests : variant = "veo" /\ Ok(r)

\* C4 as stated: within one request no outbound call to an external API is
\* issued more than once.
C4_Original ==
    \A r \in Requests : \A a \in APIs : calls[r][a] <= 1

\* C4 amended: no outbound call is issued more than once, except the fetch
\* of the video operation (client.operations.get), which is issued again as
\* long as, and only when, the last operation seen is not done; a call that
\* failed is never issued again.
C4_OnlyThePollRepeats ==
    \A r \in Requests :
        /\ \A a \in APIs \ {"veo_operations_get"} : calls[r][a] <= 1
        /\ pc[r] \in {"veo_get_call", "veo_get_wait"} =>
              ~local[r].operation.done
        /\ failed[r] \ {"compliance"} # {} => pc[r] = "done"

C4_Witness ==
    \E r \in Requests :
        calls[r]["veo_operations_get"] >= 2 /\ pc[r] = "veo_get_wait"

\* The file whose URL a successful response carries.
SavedFile(r) ==
    IF variant = "merge" THEN local[r].final_path ELSE local[r].video_path

\* C5: two requests handled at the same time share nothing that changes: a
\* response carries the script Gemini returned to that very request and the
\* prompt is built from that request's own body, the files a request writes
\* are written by no other request, and the URL a response returns resolves
\* to a file of its own request and to none of another's.
C5_NoSharedState ==
    \A r \in Requests :
        /\ \A o \in Requests \ {r} : written[r] \cap written[o] = {}
        /\ local[r].prompt # None =>
              local[r].prompt[1] = RequestData(r).device_name
        /\ Ok(r) =>
              /\ resp[r].content.script = seen[r].text
              /\ static_resolve(resp[r].content.video_url) \in written[r]
              /\ \A o \in Requests \ {r} :
                    static_resolve(resp[r].content.video_url) \notin written[o]

C5_Witness ==
    \A r \in Requests :
        Ok(r) /\ \A o \in Requests \ {r} : seen[r].text # seen[o].text

ErrorDetail(s) ==
    CASE s = "script" -> "Gemini Error" [] s = "video" -> "Runway Error"
      [] s = "audio" -> "EdenAI TTS Error"

\* What HTTP step s hands back to the handler (None while it has not).
StepValue(r, s) ==
    CASE s = "script" -> local[r].script [] s = "video" -> local[r].video_url
      [] s = "audio" -> local[r].audio_path

IsReturned(r, s) == \E i \in 1..Len(returned[r]) : returned[r][i] = s

\* C6: each HTTP step (Gemini script, Runway video, text-to-speech) returns a
\* value only on status 200; on any other status it raises an HTTPException
\* with status 500 naming the service, takes nothing from the body as its
\* result and writes no file.
C6_StatusCodeCheck ==
    \A r \in Requests : \A s \in HttpSteps :
        /\ (IsReturned(r, s) /\ (s = "video" => variant = "merge")) =>
              seen[r].status[s] = HTTP_OK
        /\ seen[r].status[s] \notin {0, HTTP_OK} =>
              /\ pc[r] = "done"
              /\ resp[r] = [status_code |-> HTTP_ERROR,
                            content |-> [detail |-> ErrorDetail(s)]]
              /\ ~IsReturned(r, s)
              /\ StepValue(r, s) = None
              /\ \A path \in written[r] :
                    basename(path)[1] \notin {"audio_", "vid_", "final_"}

C6_Witness ==
    \E r \in Requests :
        seen[r].status["audio"] = HTTP_ERROR /\ pc[r] = "done"

Started(r, s) == \E i \in 1..Len(started[r]) : started[r][i] = s

InPollLoop(r) == pc[r] \in {"veo_loop", "veo_get_call", "veo_get_wait"}
\* Where it is once the loop has been left with the video in hand.
PastPollLoop(r) ==
    variant = "veo" /\ (pc[r] \in {"veo_save_call", "veo_save_wait", "url",
                                   "respond"} \/ Ok(r))

\* C8: generate_video_with_audio reads and returns the video only after it
\* has seen the operation done; while the operation it holds is not done the
\* only thing it does is fetch it again (no timeout, no attempt limit); and
\* once it has seen the operation done the request comes to its end.
C8_PollsUntilDone ==
    /\ [](\A r \in Requests : PastPollLoop(r) => local[r].operation.done)
    /\ [][\A r \in Requests :
            (pc[r] = "veo_loop" /\ ~local[r].operation.done /\ pc'[r] # pc[r])
               => pc'[r] = "veo_get_call" /\ resp'[r] = None]_vars
    /\ \A r \in Requests :
          (pc[r] = "veo_loop" /\ local[r].operation.done) ~> (pc[r] = "done")

\* One request has fetched the operation MaxCalls times, then saw it done and
\* returned its video, while another, as many fetches in, is about to fetch
\* once more.
C8_Witness ==
    \E r, o \in Requests :
        /\ calls[r]["veo_operations_get"] = MaxCalls /\ Ok(r)
        /\ calls[o]["veo_operations_get"] = MaxCalls /\ pc[o] = "veo_get_call"

\* The prefix C9 states: "https://<hostname>" exactly when the variable is set.
C9_StatedUrl(h, path) ==
    IF h # UnsetEnv THEN <<"https://", h, "/videos/", basename(path)>>
    ELSE <<"/videos/", basename(path)>>

\* C9 as stated: the URL of a successful response is "/videos/" and the base
\* name of the file this request saved in temp_dir, with "https://<hostname>"
\* in front exactly when RENDER_EXTERNAL_HOSTNAME is set, and it resolves
\* through the /videos mount to that file.
C9_Original ==
    \A r \in Requests :
        Ok(r) =>
          /\ SavedFile(r) \in written[r]
          /\ resp[r].content.video_url = C9_StatedUrl(hostname, SavedFile(r))
          /\ static_resolve(resp[r].content.video_url) = SavedFile(r)

\* C9 amended: the same, with "https://<hostname>" in front exactly when
\* RENDER_EXTERNAL_HOSTNAME is set to a non-empty value.
C9_UrlNamesSavedFile ==
    \A r \in Requests :
        Ok(r) =>
          /\ SavedFile(r) \in written[r]
          /\ SavedFile(r)[1] = temp_dir
          /\ resp[r].content.video_url =
               (IF hostname \notin {UnsetEnv, ""}
                THEN <<"https://", hostname>> ELSE <<>>)
                  \o <<"/videos/", SavedFile(r)[2]>>
          /\ static_resolve(resp[r].content.video_url) = SavedFile(r)

C9_Witness == \E r \in Requests : Ok(r) /\ hostname = ""

\* A timestamp of the form 00:00:SS,000 with SS between 00 and 59.
ValidSrtTime(t) ==
    /\ t.hours = <<0, 0>> /\ t.minutes = <<0, 0>> /\ t.millis = <<0, 0, 0>>
    /\ Len(t.seconds) = 2
    /\ t.seconds[1] \in 0..5 /\ t.seconds[2] \in 0..9

\* The number a run of decimal digits denotes.
RECURSIVE Value(_)
Value(digits) ==
    IF digits = <<>> THEN 0
    ELSE 10 * Value(SubSeq(digits, 1, Len(digits) - 1)) + digits[Len(digits)]

\* The number of times ". " occurs in a script, counted left to right
\* without overlap.
RECURSIVE Separators(_, _)
Separators(script, i) ==
    IF i >= Len(script) THEN 0
    ELSE IF script[i] = "." /\ script[i + 1] = " "
         THEN 1 + Separators(script, i + 2)
         ELSE Separators(script, i + 1)

\* C10: for every script create_srt emits one entry per segment of the
\* script split on ". ", numbered 1..n in order; entry k runs from second
\* 2*(k-1) to second 2*k, so entries are contiguous; and every timestamp is a
\* valid SRT time 00:00:SS,000 with SS between 00 and 59.
C10_SrtEntries ==
    srtOut # None =>
      /\ Len(srtOut) = Separators(srtScript, 1) + 1
      /\ \A k \in 1..Len(srtOut) :
            /\ srtOut[k].index = k
            /\ srtOut[k].text = split(srtScript)[k]
            /\ Value(srtOut[k].start.seconds) = 2 * (k - 1)
            /\ Value(srtOut[k].end.seconds) = 2 * k
            /\ k > 1 => srtOut[k].start = srtOut[k - 1].end
            /\ ValidSrtTime(srtOut[k].start)
            /\ ValidSrtTime(srtOut[k].end)

\* The same without the claim about the form of the timestamps: what
\* create_srt does for every script.
C10_EntriesButForValidity ==
    srtOut # None =>
      /\ Len(srtOut) = Separators(srtScript, 1) + 1
      /\ \A k \in 1..Len(srtOut) :
            /\ srtOut[k].index = k
            /\ Value(srtOut[k].start.seconds) = 2 * (k - 1)
            /\ Value(srtOut[k].end.seconds) = 2 * k
            /\ k > 1 => srtOut[k].start = srtOut[k - 1].end

====
